---- MODULE Spec2Model ----
(***************************************************************************)
(* The sewer-pipe database: the tables that schema.py declares, stored in  *)
(* the SQLite file that database.py opens.  A table is a bag of rows: it is *)
(* the PRIMARY KEY constraint, not the representation, that keeps two rows *)
(* from sharing a key.  A row is a function from the columns that carry a  *)
(* value to those values; a column that is NULL is absent from the row's   *)
(* domain.  Only the columns that constraints speak of are kept: primary   *)
(* keys, foreign keys and the NOT NULL columns.                            *)
(***************************************************************************)
EXTENDS Integers, Sequences, FiniteSets, Bags, TLC

\* Identifiers range over 1..MaxId.
MaxId == 2

\* The database holds at most MaxRows rows.
MaxRows == 4

Ids == 1 .. MaxId

\* The id carried by a NOT NULL foreign key whose target table the job does
\* not load: the smallest one.
FixedId == CHOOSE i \in Ids : \A k \in Ids : i <= k

------------------------------------------------------------------------------
(* The schema: schema.py *)

Entities ==
    {"Pipe", "WeatherStation", "Rainfall", "AirHumidity", "AirTemperature",
     "PipeSeismicImpact", "SeismicActivity", "Manhole", "HydraulicProperties",
     "InterventionHistory", "Inspection", "Defect", "Failure"}

\* The modelled columns of each table, in declaration order.
Columns == [t \in Entities |->
    CASE t = "Pipe" -> <<"Pipe_ID", "Weather_station_ID", "Manhole_up_ID", "Manhole_down_ID">>
      [] t = "WeatherStation" -> <<"Weather_station_ID">>
      [] t = "Rainfall" -> <<"Weather_station_ID", "id">>
      [] t = "AirHumidity" -> <<"air_humidity_id", "Weather_station_ID">>
      [] t = "AirTemperature" -> <<"Weather_station_ID", "id">>
      [] t = "PipeSeismicImpact" -> <<"Pipe_ID", "Seismic_activity_ID", "id">>
      [] t = "SeismicActivity" -> <<"Seismic_activity_ID">>
      [] t = "Manhole" -> <<"Manhole_ID">>
      [] t = "HydraulicProperties" -> <<"Pipe_ID">>
      [] t = "InterventionHistory" -> <<"Intervention_ID", "Pipe_ID">>
      [] t = "Inspection" -> <<"Inspection_ID", "Pipe_ID">>
      [] t = "Defect" -> <<"Defect_ID", "Inspection_ID", "Main_defect_code">>
      [] t = "Failure" -> <<"Failure_ID", "Pipe_ID", "Intervention_ID">>]

ColumnSet == [t \in Entities |-> {Columns[t][i] : i \in 1 .. Len(Columns[t])}]

\* primary_key=True
PrimaryKey == [t \in Entities |->
    CASE t = "Pipe" -> "Pipe_ID"
      [] t = "WeatherStation" -> "Weather_station_ID"
      [] t = "Rainfall" -> "id"
      [] t = "AirHumidity" -> "air_humidity_id"
      [] t = "AirTemperature" -> "id"
      [] t = "PipeSeismicImpact" -> "id"
      [] t = "SeismicActivity" -> "Seismic_activity_ID"
      [] t = "Manhole" -> "Manhole_ID"
      [] t = "HydraulicProperties" -> "Pipe_ID"
      [] t = "InterventionHistory" -> "Intervention_ID"
      [] t = "Inspection" -> "Inspection_ID"
      [] t = "Defect" -> "Defect_ID"
      [] t = "Failure" -> "Failure_ID"]

\* ForeignKey("<table>.<column>"): <<table, column, target table>>
ForeignKeys ==
    {<<"Pipe", "Weather_station_ID", "WeatherStation">>,
     <<"Pipe", "Manhole_up_ID", "Manhole">>,
     <<"Pipe", "Manhole_down_ID", "Manhole">>,
     <<"Rainfall", "Weather_station_ID", "WeatherStation">>,
     <<"AirHumidity", "Weather_station_ID", "WeatherStation">>,
     <<"AirTemperature", "Weather_station_ID", "WeatherStation">>,
     <<"PipeSeismicImpact", "Pipe_ID", "Pipe">>,
     <<"PipeSeismicImpact", "Seismic_activity_ID", "SeismicActivity">>,
     <<"HydraulicProperties", "Pipe_ID", "Pipe">>,
     <<"InterventionHistory", "Pipe_ID", "Pipe">>,
     <<"Inspection", "Pipe_ID", "Pipe">>,
     <<"Defect", "Inspection_ID", "Inspection">>,
     <<"Failure", "Pipe_ID", "Pipe">>,
     <<"Failure", "Intervention_ID", "InterventionHistory">>}

FkColumns == [t \in Entities |-> {fk[2] : fk \in {f \in ForeignKeys : f[1] = t}}]

FkTarget(t, c) == (CHOOSE fk \in ForeignKeys : fk[1] = t /\ fk[2] = c)[3]

\* nullable=False, other than the primary keys
Required == [t \in Entities |->
    CASE t = "PipeSeismicImpact" -> {"Pipe_ID", "Seismic_activity_ID"}
      [] t = "InterventionHistory" -> {"Pipe_ID"}
      [] t = "Inspection" -> {"Pipe_ID"}
      [] t = "Defect" -> {"Inspection_ID", "Main_defect_code"}
      [] t = "Failure" -> {"Pipe_ID"}
      [] OTHER -> {}]

\* Values of Defect.Main_defect_code
DefectCodes == {"BAB"}

------------------------------------------------------------------------------
(* The engine: database.py *)

\* create_engine(DATABASE_URL, echo=True) registers nothing that issues
\* PRAGMA foreign_keys=ON on connect, and SQLite leaves the pragma off.
ForeignKeysPragma == FALSE

\* The sessions that SessionLocal() hands out.
Sessions == {"s1", "s2"}

NoSession == "none"

VARIABLES
    tables,     \* the tables that exist in sewer_database.db
    rows,       \* rows[t]: the bag of committed rows of table t
    job,        \* the tables the ingestion job of this run works on
    session,    \* session[s]: the unit of work session s is in
    lock        \* the session that holds SQLite's write lock

vars == <<tables, rows, job, session, lock>>

------------------------------------------------------------------------------
(* Rows *)

IsNull(r, c) == c \notin DOMAIN r

\* The primary-key values in the bag of rows rs of table t.
Keys(t, rs) == {r[PrimaryKey[t]] : r \in BagToSet(rs)}

\* The rows of rs that carry key k.
WithKey(t, k, rs) == [r \in {x \in BagToSet(rs) : x[PrimaryKey[t]] = k} |-> rs[r]]

\* The rows of rs that do not.
WithoutKey(t, k, rs) == [r \in {x \in BagToSet(rs) : x[PrimaryKey[t]] # k} |-> rs[r]]

\* The ingestion jobs: a table with foreign keys and tables it refers to.
Jobs ==
    {{"Pipe", "WeatherStation"},
     {"Pipe", "Manhole"},
     {"Rainfall", "WeatherStation"},
     {"AirHumidity", "WeatherStation"},
     {"AirTemperature", "WeatherStation"},
     {"PipeSeismicImpact", "Pipe", "SeismicActivity"},
     {"HydraulicProperties", "Pipe"},
     {"InterventionHistory", "Pipe"},
     {"Inspection", "Pipe"},
     {"Defect", "Inspection"},
     {"Failure", "Pipe"},
     {"Failure", "InterventionHistory"}}

\* The values a job presents in column c of table t.
ColumnValues(j, t, c) ==
    IF c = "Main_defect_code" THEN DefectCodes
    ELSE IF c \in FkColumns[t] /\ c # PrimaryKey[t] /\ FkTarget(t, c) \notin j
         THEN IF c \in Required[t] THEN {FixedId} ELSE {}
         ELSE Ids

RECURSIVE RowsOver(_, _, _)
RowsOver(j, t, cols) ==
    IF cols = {} THEN {<<>>}
    ELSE LET c == CHOOSE x \in cols : TRUE
             rest == RowsOver(j, t, cols \ {c})
         IN  rest \cup {r @@ (c :> v) : r \in rest, v \in ColumnValues(j, t, c)}

\* The candidate records a job presents for table t; any column may be
\* left out.
CandidateTable == [j \in Jobs |-> [t \in j |-> RowsOver(j, t, ColumnSet[t])]]

Candidates(j, t) == CandidateTable[j][t]

------------------------------------------------------------------------------
(* What SQLite checks when it executes a statement *)

Ok == [type |-> "ok", constraint |-> "", column |-> ""]

IntegrityError(k, c) == [type |-> "IntegrityError", constraint |-> k, column |-> c]

OperationalError(m) == [type |-> "OperationalError", constraint |-> m, column |-> ""]

\* Columns created without NOT NULL.
NotNullFailures_None(t, r) == {}

\* The first NOT NULL column, in declaration order, that r leaves NULL.  The
\* primary key is not among them: it is the rowid, and a NULL there asks
\* for a generated one.
NotNullFailures(t, r) ==
    {i \in 1 .. Len(Columns[t]) : Columns[t][i] \in Required[t] /\ IsNull(r, Columns[t][i])}

Least(S) == CHOOSE x \in S : \A y \in S : x <= y

Greatest(S) == CHOOSE x \in S : \A y \in S : y <= x

\* Every primary key is a single INTEGER column, so it is the rowid: left
\* NULL, SQLite takes the largest rowid in the table plus one.
NextRowid(t, rs) == IF Keys(t, rs) = {} THEN 1 ELSE Greatest(Keys(t, rs)) + 1

AssignedKey(t, r, rs) ==
    IF IsNull(r, PrimaryKey[t]) THEN NextRowid(t, rs) ELSE r[PrimaryKey[t]]

\* The row as stored: the record with its primary key filled in.
Stored(t, r, rs) ==
    [c \in DOMAIN r \cup {PrimaryKey[t]} |->
        IF c = PrimaryKey[t] THEN AssignedKey(t, r, rs) ELSE r[c]]

\* A table created without its PRIMARY KEY constraint.
PrimaryKeyTaken_Unconstrained(t, r, rs) == FALSE

\* pipe_seismic_impact keyed by its pair of references instead of its id.
PrimaryKeyTaken_PairKey(t, r, rs) ==
    IF t = "PipeSeismicImpact"
    THEN \E x \in BagToSet(rs) :
            /\ {"Pipe_ID", "Seismic_activity_ID"} \subseteq DOMAIN r
            /\ x["Pipe_ID"] = r["Pipe_ID"]
            /\ x["Seismic_activity_ID"] = r["Seismic_activity_ID"]
    ELSE AssignedKey(t, r, rs) \in Keys(t, rs)

\* PRIMARY KEY: no stored row has the key.
PrimaryKeyTaken(t, r, rs) == AssignedKey(t, r, rs) \in Keys(t, rs)

\* The foreign-key columns of r that name a row its target does not hold.
Dangling(t, r, db) ==
    {c \in FkColumns[t] \cap DOMAIN r : r[c] \notin Keys(FkTarget(t, c), db[FkTarget(t, c)])}

\* Foreign keys are looked at only under PRAGMA foreign_keys=ON, and then
\* in the row as stored.
ForeignKeyFails(t, r, db) ==
    ForeignKeysPragma /\ Dangling(t, Stored(t, r, db[t]), db) # {}

\* The rows of other tables that refer to key k of table t.
Referring(t, k, db) ==
    UNION {{<<fk[1], x>> : x \in {y \in BagToSet(db[fk[1]]) :
                                        fk[2] \in DOMAIN y /\ y[fk[2]] = k}} :
           fk \in {f \in ForeignKeys : f[3] = t}}

\* A defect table with CHECK (Circumferential_end >= Circumferential_start).
InsertResult_ClockOrder(t, r, db) ==
    IF NotNullFailures(t, r) # {}
    THEN IntegrityError("NOT NULL", Columns[t][Least(NotNullFailures(t, r))])
    ELSE IF PrimaryKeyTaken(t, r, db[t])
    THEN IntegrityError("UNIQUE", PrimaryKey[t])
    ELSE IF /\ {"Circumferential_start", "Circumferential_end"} \subseteq DOMAIN r
            /\ r["Circumferential_end"] < r["Circumferential_start"]
    THEN IntegrityError("CHECK", "")
    ELSE Ok

\* A pipe table with CHECK (Manhole_up_ID <> Manhole_down_ID).
InsertResult_DistinctEnds(t, r, db) ==
    IF NotNullFailures(t, r) # {}
    THEN IntegrityError("NOT NULL", Columns[t][Least(NotNullFailures(t, r))])
    ELSE IF PrimaryKeyTaken(t, r, db[t])
    THEN IntegrityError("UNIQUE", PrimaryKey[t])
    ELSE IF /\ {"Manhole_up_ID", "Manhole_down_ID"} \subseteq DOMAIN r
            /\ r["Manhole_up_ID"] = r["Manhole_down_ID"]
    THEN IntegrityError("CHECK", "")
    ELSE Ok

\* An INSERT that takes the place of the row that holds the key.
InsertResult_NoUnique(t, r, db) ==
    IF NotNullFailures(t, r) # {}
    THEN IntegrityError("NOT NULL", Columns[t][Least(NotNullFailures(t, r))])
    ELSE Ok

\* INSERT INTO t: the error SQLite raises, or Ok.
InsertResult(t, r, db) ==
    IF NotNullFailures(t, r) # {}
    THEN IntegrityError("NOT NULL", Columns[t][Least(NotNullFailures(t, r))])
    ELSE IF PrimaryKeyTaken(t, r, db[t])
    THEN IntegrityError("UNIQUE", PrimaryKey[t])
    ELSE IF ForeignKeyFails(t, r, db)
    THEN IntegrityError("FOREIGN KEY", "")
    ELSE Ok

\* The tables after INSERT INTO t: a statement that fails changes nothing.
InsertRows(t, r, db) ==
    IF InsertResult(t, r, db) = Ok
    THEN [db EXCEPT ![t] = @ (+) SetToBag({Stored(t, r, db[t])})]
    ELSE db

\* DELETE FROM t WHERE <primary key> = k.  No foreign key declares ON
\* DELETE, so under the pragma a referenced row cannot go; without it the
\* row goes and the referring rows stay.
DeleteResult(t, k, db) ==
    IF ForeignKeysPragma /\ k \in Keys(t, db[t]) /\ Referring(t, k, db) # {}
    THEN IntegrityError("FOREIGN KEY", "")
    ELSE Ok

DeleteRows(t, k, db) ==
    IF DeleteResult(t, k, db) = Ok
    THEN [db EXCEPT ![t] = WithoutKey(t, k, @)]
    ELSE db

\* The rows of rs that carry key k, each with k2 in its place.
Rekeyed(t, k, k2, rs) ==
    [y \in {[x EXCEPT ![PrimaryKey[t]] = k2] : x \in DOMAIN WithKey(t, k, rs)} |->
        rs[[y EXCEPT ![PrimaryKey[t]] = k]]]

\* UPDATE t SET <primary key> = k2 WHERE <primary key> = k.  No column is
\* declared read-only: SQLite rewrites the rowid if no other row holds k2.
\* Under the pragma the row must not be referred to, and a key that is also
\* a foreign key must find its target.
UpdateResult(t, k, k2, db) ==
    IF k \notin Keys(t, db[t]) \/ k2 = k
    THEN Ok
    ELSE IF k2 \in Keys(t, db[t])
    THEN IntegrityError("UNIQUE", PrimaryKey[t])
    ELSE IF /\ ForeignKeysPragma
            /\ \/ Referring(t, k, db) # {}
               \/ \E y \in DOMAIN Rekeyed(t, k, k2, db[t]) : Dangling(t, y, db) # {}
    THEN IntegrityError("FOREIGN KEY", "")
    ELSE Ok

UpdateRows(t, k, k2, db) ==
    IF UpdateResult(t, k, k2, db) = Ok
    THEN [db EXCEPT ![t] = WithoutKey(t, k, @) (+) Rekeyed(t, k, k2, @)]
    ELSE db

\* drop_all() before create_all(): every table is created anew.
CreateAll_DropFirst(ts, db) == [t \in Entities |-> EmptyBag]

\* Metadata.create_all(checkfirst=True): CREATE TABLE for the tables that do
\* not exist yet, nothing for those that do.
CreateAll(ts, db) == [t \in Entities |-> IF t \in ts THEN db[t] ELSE EmptyBag]

NoSuchTable == OperationalError("no such table")

DatabaseLocked == OperationalError("database is locked")

------------------------------------------------------------------------------
(* One statement at a time, each committed as it is executed *)

Idle == [state |-> "idle", op |-> "", table |-> "", row |-> <<>>, seen |-> {}]

RECURSIVE CountRows(_, _)
CountRows(ts, db) ==
    IF ts = {} THEN 0
    ELSE LET t == CHOOSE x \in ts : TRUE
         IN  BagCardinality(db[t]) + CountRows(ts \ {t}, db)

\* The rows in store: only the tables of the job ever hold any.
TotalRows(db) == CountRows(job, db)

Init ==
    /\ tables = {}
    /\ rows = [t \in Entities |-> EmptyBag]
    /\ job \in Jobs
    /\ session = [s \in Sessions |-> Idle]
    /\ lock = NoSession

create_tables ==
    /\ lock = NoSession
    /\ tables' = Entities
    /\ rows' = CreateAll(tables, rows)
    /\ UNCHANGED <<job, session, lock>>

\* The outcome of INSERT INTO t and of DELETE FROM t in the current state.
InsertOutcome(t, r) == IF t \in tables THEN InsertResult(t, r, rows) ELSE NoSuchTable

DeleteOutcome(t, k) == IF t \in tables THEN DeleteResult(t, k, rows) ELSE NoSuchTable

Insert(t, r) ==
    /\ IsNull(r, PrimaryKey[t]) => NextRowid(t, rows[t]) <= MaxId
    /\ TotalRows(rows) < MaxRows
    /\ rows' = IF InsertOutcome(t, r) = Ok THEN InsertRows(t, r, rows) ELSE rows
    /\ UNCHANGED <<tables, job, session, lock>>

Delete(t, k) ==
    /\ rows' = IF DeleteOutcome(t, k) = Ok THEN DeleteRows(t, k, rows) ELSE rows
    /\ UNCHANGED <<tables, job, session, lock>>

UpdateOutcome(t, k, k2) ==
    IF t \in tables THEN UpdateResult(t, k, k2, rows) ELSE NoSuchTable

Update(t, k, k2) ==
    /\ rows' = IF UpdateOutcome(t, k, k2) = Ok THEN UpdateRows(t, k, k2, rows) ELSE rows
    /\ UNCHANGED <<tables, job, session, lock>>

Next ==
    \/ create_tables
    \/ \E t \in job : \E r \in Candidates(job, t) : Insert(t, r)
    \/ \E t \in job : \E k \in Ids : Delete(t, k)
    \/ \E t \in job : \E k, k2 \in Ids : Update(t, k, k2)

Spec == Init /\ [][Next]_vars

------------------------------------------------------------------------------
(* Units of work: sessions of SessionLocal() that look up, write and commit *)

\* The foreign-key columns of r whose target row is committed.
Resolved(t, r, db) == (FkColumns[t] \cap DOMAIN r) \ Dangling(t, r, db)

\* The units of work a job presents: the insert of a record that carries
\* its required columns, or the delete of a row by its key.
UnitTable ==
    [j \in Jobs |->
    UNION {{[op |-> "insert", table |-> t, row |-> r] :
                r \in {x \in Candidates(j, t) : NotNullFailures(t, x) = {}}} : t \in j}
    \cup UNION {{[op |-> "delete", table |-> t, row |-> (PrimaryKey[t] :> k)] :
                k \in Ids} : t \in j}]

Units(j) == UnitTable[j]

InitTxn ==
    /\ tables = {}
    /\ rows = [t \in Entities |-> EmptyBag]
    /\ job = {"Defect", "Inspection"}
    /\ session = [s \in Sessions |-> Idle]
    /\ lock = NoSession

\* The session takes up a unit and looks up the rows its record refers to.
\* The look-up is a SELECT: it leaves no lock behind.
Begin(s, u) ==
    /\ session[s].state = "idle"
    /\ tables = Entities
    /\ session' = [session EXCEPT ![s] =
            [state |-> "begun", op |-> u.op, table |-> u.table, row |-> u.row,
             seen |-> IF u.op = "insert" THEN Resolved(u.table, u.row, rows) ELSE {}]]
    /\ UNCHANGED <<tables, rows, job, lock>>

\* What the unit's statement gives against the committed rows.
UnitOutcome(u, db) ==
    IF u.op = "insert" THEN InsertResult(u.table, u.row, db)
    ELSE DeleteResult(u.table, u.row[PrimaryKey[u.table]], db)

UnitRows(u, db) ==
    IF u.op = "insert" THEN InsertRows(u.table, u.row, db)
    ELSE DeleteRows(u.table, u.row[PrimaryKey[u.table]], db)

\* flush: the statement runs under SQLite's write lock, which one
\* connection holds at a time.  A statement that raises ends the unit.
Execute(s) ==
    /\ session[s].state = "begun"
    /\ lock = NoSession
    /\ session[s].op = "insert" =>
          /\ TotalRows(rows) < MaxRows
          /\ AssignedKey(session[s].table, session[s].row, rows[session[s].table]) <= MaxId
    /\ IF UnitOutcome(session[s], rows) = Ok
       THEN /\ session' = [session EXCEPT ![s].state = "executed"]
            /\ lock' = s
       ELSE /\ session' = [session EXCEPT ![s] = Idle]
            /\ lock' = lock
    /\ UNCHANGED <<tables, rows, job>>

\* Another connection holds the write lock: "database is locked".
Busy(s) ==
    /\ session[s].state = "begun"
    /\ lock \notin {NoSession, s}
    /\ session' = [session EXCEPT ![s] = Idle]
    /\ UNCHANGED <<tables, rows, job, lock>>

\* commit: the unit's change becomes the committed state, all at once.
Commit(s) ==
    /\ session[s].state = "executed"
    /\ lock = s
    /\ rows' = UnitRows(session[s], rows)
    /\ session' = [session EXCEPT ![s] = Idle]
    /\ lock' = NoSession
    /\ UNCHANGED <<tables, job>>

\* rollback: the unit's change is dropped.
Rollback(s) ==
    /\ session[s].state \in {"begun", "executed"}
    /\ session' = [session EXCEPT ![s] = Idle]
    /\ lock' = IF lock = s THEN NoSession ELSE lock
    /\ UNCHANGED <<tables, rows, job>>

NextTxn ==
    \/ create_tables
    \/ \E s \in Sessions : \E u \in Units(job) : Begin(s, u)
    \/ \E s \in Sessions : Execute(s)
    \/ \E s \in Sessions : Busy(s)
    \/ \E s \in Sessions : Commit(s)
    \/ \E s \in Sessions : Rollback(s)

SpecTxn == InitTxn /\ [][NextTxn]_vars

------------------------------------------------------------------------------
(* Objects: typed attribute values written and read back through sessions *)

\* The attribute columns followed beside the keys: of Pipe one of each
\* column type it declares, of HydraulicProperties a measurement, of Defect
\* the two clock positions.
Attributes ==
    [t \in Entities |->
        CASE t = "Pipe" -> {"Diameter", "Material", "Pipe_length", "Tidal_influence"}
          [] t = "HydraulicProperties" -> {"Pipe_capacity"}
          [] t = "Defect" -> {"Circumferential_start", "Circumferential_end"}
          [] OTHER -> {}]

\* The declared type of a column: Integer, String, Float or Boolean.
ColumnType(t, c) ==
    CASE c \in {"Material", "Main_defect_code"} -> "String"
      [] c \in {"Pipe_length", "Pipe_capacity"} -> "Float"
      [] c = "Tidal_influence" -> "Boolean"
      [] OTHER -> "Integer"

\* Clock positions run from 0 to ClockMax.
ClockMax == 12

Clock == 0 .. ClockMax

\* A Float as its decimal digits and exponent.
Float(m, e) == [mantissa |-> m, exponent |-> e]

\* A Boolean read back as True whatever was stored.
ResultValue_Truthy(type, x) == IF type = "Boolean" THEN TRUE ELSE x

\* The bind processor of a column type: Boolean sends True and False as 1
\* and 0; integers, floats and text go to SQLite as they are.
BindValue(type, v) == IF type = "Boolean" THEN (IF v THEN 1 ELSE 0) ELSE v

\* The result processor of a column type: Boolean reads 0 as False and any
\* other integer as True.
ResultValue(type, x) == IF type = "Boolean" THEN x # 0 ELSE x

\* The name under which a Pipe object holds its HydraulicProperties object.
Linked == "hydraulic_properties"

\* The row an object is sent as, and the object a row is read as.  None is
\* NULL both ways.
BindRow(t, o) == [c \in DOMAIN o \ {Linked} |-> BindValue(ColumnType(t, c), o[c])]

ResultRow(t, x) == [c \in DOMAIN x |-> ResultValue(ColumnType(t, c), x[c])]

\* The jobs that write one object and read it back: a Pipe with the rows it
\* refers to and its HydraulicProperties, a Defect with its Inspection.
ObjectJobs ==
    {{"Pipe", "HydraulicProperties", "Manhole", "WeatherStation"},
     {"Defect", "Inspection"}}

\* The table whose objects a job writes.
Written(j) == IF "Pipe" \in j THEN "Pipe" ELSE "Defect"

LastId == Greatest(Ids)

\* The rows a job stores for its objects to refer to.
ParentRows(t) ==
    {(PrimaryKey[t] :> k) @@ [c \in Required[t] |-> FixedId] :
        k \in IF t = "Manhole" THEN {FixedId, LastId} ELSE {FixedId}}

\* The values a job presents in column c of an object of table t.
ObjectValues(t, c) ==
    IF c = PrimaryKey[t] THEN Ids
    ELSE IF c = "Manhole_down_ID" THEN {LastId}
    ELSE IF c \in FkColumns[t] THEN {FixedId}
    ELSE IF c = "Main_defect_code" THEN DefectCodes
    ELSE Clock

RECURSIVE ObjectsOver(_, _)
ObjectsOver(t, cols) ==
    IF cols = {} THEN {<<>>}
    ELSE LET c == CHOOSE x \in cols : TRUE
             rest == ObjectsOver(t, cols \ {c})
         IN  rest \cup {o @@ (c :> v) : o \in rest, v \in ObjectValues(t, c)}

\* The attribute values of a Pipe: none, all, all of them falsy, some.
\* String(20) becomes VARCHAR(20), a length SQLite does not hold text to:
\* the last Material is longer.
PipeAttributes ==
    {<<>>,
     [Diameter |-> 300, Material |-> "PVC", Pipe_length |-> Float(25, -1),
      Tidal_influence |-> TRUE],
     [Diameter |-> 0, Material |-> "", Pipe_length |-> Float(0, 0),
      Tidal_influence |-> FALSE],
     [Material |-> "unplasticised polyvinyl chloride", Tidal_influence |-> FALSE]}

\* A Pipe has no HydraulicProperties object, or one without or with its
\* measurement.
PipeLinks ==
    {<<>>,
     (Linked :> <<>>),
     (Linked :> [Pipe_capacity |-> Float(12, -1)])}

\* The objects a job presents; any attribute may be None.
ObjectTable ==
    [j \in ObjectJobs |->
        IF Written(j) = "Pipe"
        THEN {k @@ a @@ h : k \in ObjectsOver("Pipe", ColumnSet["Pipe"]),
                            a \in PipeAttributes, h \in PipeLinks}
        ELSE ObjectsOver("Defect", ColumnSet["Defect"] \cup Attributes["Defect"])]

Objects(j) == ObjectTable[j]

\* The object with primary key k.
Keyed(t, o, k) == (PrimaryKey[t] :> k) @@ o

\* The object as it is once flushed: its key is the one SQLite assigns, and
\* the object linked to it carries that key.
Persistent(t, o, db) ==
    LET k == AssignedKey(t, BindRow(t, o), db[t])
    IN  IF Linked \in DOMAIN o
        THEN (Linked :> Keyed("HydraulicProperties", o[Linked], k)) @@ Keyed(t, o, k)
        ELSE Keyed(t, o, k)

\* The INSERT of the object's row and then of the row of the object linked
\* to it, in one transaction.  The first statement that raises ends it with
\* nothing stored.
WriteObject(t, o, db) ==
    LET r == BindRow(t, o)
        first == InsertResult(t, r, db)
        db1 == InsertRows(t, r, db)
    IN  IF first # Ok THEN [result |-> first, rows |-> db]
        ELSE IF Linked \notin DOMAIN o THEN [result |-> Ok, rows |-> db1]
        ELSE LET h == BindRow("HydraulicProperties", Persistent(t, o, db)[Linked])
                 second == InsertResult("HydraulicProperties", h, db1)
             IN  [result |-> second,
                  rows |-> IF second = Ok
                           THEN InsertRows("HydraulicProperties", h, db1)
                           ELSE db]

\* The SELECT of the row with key k and, for a Pipe, of the
\* HydraulicProperties row with that key.  No row gives no object.
ReadObject(t, k, db) ==
    LET hs == DOMAIN WithKey("HydraulicProperties", k, db["HydraulicProperties"])
        link == IF t = "Pipe" /\ hs # {}
                THEN (Linked :> ResultRow("HydraulicProperties", CHOOSE h \in hs : TRUE))
                ELSE <<>>
    IN  {ResultRow(t, x) @@ link : x \in DOMAIN WithKey(t, k, db[t])}

InitObjects ==
    /\ tables = {}
    /\ rows = [t \in Entities |-> EmptyBag]
    /\ job \in ObjectJobs
    /\ session = [s \in Sessions |-> Idle]
    /\ lock = NoSession

\* A session writes object o and commits, and keeps the object as it was
\* written.  One object is written in a run.
Add(s, o) ==
    /\ session[s].state = "idle"
    /\ tables = Entities
    /\ \A s2 \in Sessions : session[s2].state # "stored"
    /\ AssignedKey(Written(job), BindRow(Written(job), o), rows[Written(job)]) <= MaxId
    /\ rows' = WriteObject(Written(job), o, rows).rows
    /\ session' = IF WriteObject(Written(job), o, rows).result = Ok
                  THEN [session EXCEPT ![s] =
                           [state |-> "stored", op |-> "insert", table |-> Written(job),
                            row |-> Persistent(Written(job), o, rows), seen |-> {}]]
                  ELSE session
    /\ UNCHANGED <<tables, job, lock>>

\* A session reads the object with key k.
Get(s, k) ==
    /\ session[s].state = "idle"
    /\ tables = Entities
    /\ session' = [session EXCEPT ![s] =
                      [state |-> "read", op |-> "select", table |-> Written(job),
                       row |-> (PrimaryKey[Written(job)] :> k),
                       seen |-> ReadObject(Written(job), k, rows)]]
    /\ UNCHANGED <<tables, rows, job, lock>>

NextObjects ==
    \/ create_tables
    \/ \E t \in job \ {Written(job), "HydraulicProperties"} :
           \E r \in ParentRows(t) : Insert(t, r)
    \/ \E s \in Sessions : \E o \in Objects(job) : Add(s, o)
    \/ \E s \in Sessions : \E k \in Ids : Get(s, k)

SpecObjects == InitObjects /\ [][NextObjects]_vars

------------------------------------------------------------------------------
(* The relationship declarations of schema.py *)

\* relationship("<target>", back_populates="<name>"):
\* <<class, attribute, target class, back_populates>>
Relationships ==
    {<<"Pipe", "weather_station", "WeatherStation", "pipes">>,
     <<"Pipe", "upstream_manhole", "Manhole", "pipes_upstream">>,
     <<"Pipe", "downstream_manhole", "Manhole", "pipes_downstream">>,
     <<"Pipe", "hydraulic_properties", "HydraulicProperties", "pipe">>,
     <<"Pipe", "interventions", "InterventionHistory", "pipe">>,
     <<"Pipe", "failures", "Failure", "pipe">>,
     <<"Pipe", "seismic_impact", "PipeSeismicImpact", "pipe">>,
     <<"Pipe", "inspection", "Inspection", "pipe">>,
     <<"WeatherStation", "pipes", "Pipe", "weather_station">>,
     <<"WeatherStation", "air_temperature_records", "AirTemperature", "weather_station">>,
     <<"WeatherStation", "air_humidity_records", "AirHumidity", "weather_station">>,
     <<"WeatherStation", "rainfall_records", "Rainfall", "weather_station">>,
     <<"Rainfall", "weather_station", "WeatherStation", "rainfall_records">>,
     <<"AirHumidity", "weather_station", "WeatherStation", "air_humidity_records">>,
     <<"AirTemperature", "weather_station", "WeatherStation", "air_temperature_records">>,
     <<"PipeSeismicImpact", "pipe", "Pipe", "seismic_impact">>,
     <<"PipeSeismicImpact", "seismic_activity", "SeismicActivity", "pipe_impacts">>,
     <<"SeismicActivity", "pipes", "Pipe", "seismic_activity">>,
     <<"SeismicActivity", "pipe_impacts", "PipeSeismicImpact", "seismic_activity">>,
     <<"Manhole", "pipes_upstream", "Pipe", "upstream_manhole">>,
     <<"Manhole", "pipes_downstream", "Pipe", "downstream_manhole">>,
     <<"HydraulicProperties", "pipe", "Pipe", "hydraulic_properties">>,
     <<"InterventionHistory", "pipe", "Pipe", "interventions">>,
     <<"InterventionHistory", "failures", "Failure", "intervention">>,
     <<"Inspection", "pipe", "Pipe", "inspection">>,
     <<"Inspection", "defects", "Defect", "inspection">>,
     <<"Defect", "inspection", "Inspection", "defects">>,
     <<"Failure", "pipe", "Pipe", "failures">>,
     <<"Failure", "intervention", "InterventionHistory", "failures">>}

\* The relationship that rel names as its reciprocal, if it is declared.
Reciprocals(rel) ==
    {q \in Relationships : q[1] = rel[3] /\ q[2] = rel[4]}

\* The foreign keys declared between the two classes of rel, either way.
JoinKeys(rel) ==
    {fk \in ForeignKeys : \/ fk[1] = rel[1] /\ fk[3] = rel[3]
                          \/ fk[1] = rel[3] /\ fk[3] = rel[1]}

\* The relationships the mapper configuration cannot set up: SQLAlchemy
\* finds no reciprocal of the name given, or no foreign key to join on.
Unconfigurable ==
    {rel \in Relationships :
        \/ \A q \in Reciprocals(rel) : q[3] # rel[1] \/ q[4] # rel[2]
        \/ JoinKeys(rel) = {}}

InitMapper ==
    /\ tables = {}
    /\ rows = [t \in Entities |-> EmptyBag]
    /\ job = {}
    /\ session = [s \in Sessions |-> Idle]
    /\ lock = NoSession

\* The first use of a mapped class in a session configures the mappers:
\* relationship rel is set up, or the configuration fails on it.
Configure(s, rel) ==
    /\ session[s].state = "idle"
    /\ session' = [session EXCEPT ![s] =
                      [state |-> IF rel \in Unconfigurable THEN "failed" ELSE "configured",
                       op |-> "configure", table |-> rel[1], row |-> rel,
                       seen |-> Reciprocals(rel)]]
    /\ UNCHANGED <<tables, rows, job, lock>>

NextMapper ==
    \/ create_tables
    \/ \E s \in Sessions : \E rel \in Relationships : Configure(s, rel)

SpecMapper == InitMapper /\ [][NextMapper]_vars

------------------------------------------------------------------------------
(* Properties *)

HP == "HydraulicProperties"

PSI == "PipeSeismicImpact"

\* The number of stored rows of table t that carry key k.
KeyCount(t, k) == BagCardinality(WithKey(t, k, rows[t]))

\* The foreign-key columns that would dangle in record r once stored.
Unmatched(t, r) == Dangling(t, Stored(t, r, rows[t]), rows)

\* The statement INSERT INTO t of record r is refused and stores nothing.
Refused(t, r) ==
    /\ InsertOutcome(t, r).type = "IntegrityError"
    /\ InsertRows(t, r, rows) = rows

\* The statement INSERT INTO t of record r succeeds and stores the record.
Accepted(t, r) ==
    /\ InsertOutcome(t, r) = Ok
    /\ InsertRows(t, r, rows)[t] = rows[t] (+) SetToBag({Stored(t, r, rows[t])})

\* C1: for every foreign-key attribute, the insert of a record whose non-null
\* foreign key matches no row of the target entity fails with a constraint
\* violation and stores nothing, and the insert of a record whose foreign
\* keys all match existing rows (and that breaks no other constraint)
\* succeeds.
C1_DanglingForeignKeyRefused ==
    tables = Entities =>
        \A t \in job : \A r \in Candidates(job, t) :
            /\ Unmatched(t, r) # {} => Refused(t, r)
            /\ (/\ Unmatched(t, r) = {}
                /\ NotNullFailures(t, r) = {}
                /\ ~PrimaryKeyTaken(t, r, rows[t])) => Accepted(t, r)

\* C2: in every reachable state, every non-null foreign-key value of every
\* stored row is the primary key of a stored row of its target entity.
C2_ReferentialIntegrity ==
    \A t \in Entities : \A r \in BagToSet(rows[t]) : Dangling(t, r, rows) = {}

\* C3: there is at most one HydraulicProperties row per Pipe_ID; the insert
\* of a HydraulicProperties row whose Pipe_ID a stored HydraulicProperties
\* row already has fails, and the insert of one whose Pipe_ID is that of a
\* stored Pipe without a HydraulicProperties row succeeds.
C3_OneHydraulicPropertiesPerPipe ==
    /\ \A k \in Keys(HP, rows[HP]) : KeyCount(HP, k) = 1
    /\ (tables = Entities /\ HP \in job) =>
          \A r \in {x \in Candidates(job, HP) : "Pipe_ID" \in DOMAIN x} :
            /\ r["Pipe_ID"] \in Keys(HP, rows[HP]) =>
                  /\ Refused(HP, r)
                  /\ InsertOutcome(HP, r) = IntegrityError("UNIQUE", "Pipe_ID")
            /\ r["Pipe_ID"] \in Keys("Pipe", rows["Pipe"]) \ Keys(HP, rows[HP]) =>
                  Accepted(HP, r)

\* C3's case: a Pipe with its HydraulicProperties row stored, and a Pipe
\* without one.
C3_Witness ==
    /\ Keys(HP, rows[HP]) # {}
    /\ Keys(HP, rows[HP]) \subseteq Keys("Pipe", rows["Pipe"])
    /\ Keys("Pipe", rows["Pipe"]) \ Keys(HP, rows[HP]) # {}

\* C4: for every entity, no two stored rows share a primary-key value, and
\* the insert of a record whose key value is in use is refused.
C4_PrimaryKeyUnique ==
    /\ \A t \in Entities : \A k \in Keys(t, rows[t]) : KeyCount(t, k) = 1
    /\ tables = Entities =>
          \A t \in job : \A r \in Candidates(job, t) :
              (/\ PrimaryKey[t] \in DOMAIN r
               /\ r[PrimaryKey[t]] \in Keys(t, rows[t])) => Refused(t, r)

\* C4's case: a table that refers to another holds two rows, under two keys.
C4_Witness ==
    \E t \in job :
        /\ FkColumns[t] # {}
        /\ Cardinality(Keys(t, rows[t])) = 2
        /\ BagCardinality(rows[t]) = 2

\* C5: when a unit that inserts a Defect referring to Inspection i, begun
\* while Inspection i is stored, runs alongside a unit that deletes
\* Inspection i, the insert unit ends either with nothing stored or with the
\* Defect stored and Inspection i still stored: no committed state holds the
\* Defect without its Inspection.
C5_DefectInsertAtomic ==
    [][\A s \in Sessions :
          (/\ session[s].state = "executed"
           /\ session[s].op = "insert"
           /\ session[s].table = "Defect"
           /\ "Inspection_ID" \in session[s].seen
           /\ session'[s].state = "idle")
          => \/ rows'["Defect"] = rows["Defect"]
             \/ session[s].row["Inspection_ID"] \in Keys("Inspection", rows'["Inspection"])]_vars

\* C6: create_tables invoked where the tables exist and hold rows leaves
\* every table in existence and every stored row unchanged.
C6_BootstrapNonDestructive ==
    [][create_tables => (tables \subseteq tables' /\ rows' = rows)]_vars

\* C6's case: the tables exist and hold rows.
C6_Witness == tables = Entities /\ TotalRows(rows) >= 2

\* C8: a record that lacks a value for a required attribute is refused with
\* a NOT NULL violation naming such an attribute and is not stored; a record
\* that leaves out only nullable attributes is not refused for that reason.
C8_RequiredAttributes ==
    /\ \A t \in Entities : \A x \in BagToSet(rows[t]) : Required[t] \subseteq DOMAIN x
    /\ tables = Entities =>
          \A t \in job : \A r \in Candidates(job, t) :
              IF Required[t] \ DOMAIN r # {}
              THEN /\ Refused(t, r)
                   /\ InsertOutcome(t, r).constraint = "NOT NULL"
                   /\ InsertOutcome(t, r).column \in Required[t] \ DOMAIN r
              ELSE InsertOutcome(t, r).constraint # "NOT NULL"

\* C8's case: a Failure stored without its nullable Intervention_ID, its
\* required Pipe_ID naming a stored Pipe.
C8_Witness ==
    \E x \in BagToSet(rows["Failure"]) :
        /\ IsNull(x, "Intervention_ID")
        /\ x["Pipe_ID"] \in Keys("Pipe", rows["Pipe"])

\* C9: a Pipe whose Manhole_up_ID matches no Manhole row is refused with a
\* violation naming Manhole_up_ID, whatever its Manhole_down_ID; a Pipe whose
\* references all match stored rows is accepted.
C9_ManholeRolesChecked ==
    (tables = Entities /\ job = {"Pipe", "Manhole"}) =>
        \A r \in Candidates(job, "Pipe") :
            /\ "Manhole_up_ID" \in Unmatched("Pipe", r) =>
                  /\ Refused("Pipe", r)
                  /\ InsertOutcome("Pipe", r).column = "Manhole_up_ID"
            /\ (/\ Unmatched("Pipe", r) = {}
                /\ ~PrimaryKeyTaken("Pipe", r, rows["Pipe"])) => Accepted("Pipe", r)

\* C10: the insert of a PipeSeismicImpact row whose two references match
\* stored rows succeeds, also when a stored row has the same pair, and no
\* two stored PipeSeismicImpact rows have the same id.
C10_RepeatedSeismicPairs ==
    /\ \A k \in Keys(PSI, rows[PSI]) : KeyCount(PSI, k) = 1
    /\ (tables = Entities /\ PSI \in job) =>
          \A r \in Candidates(job, PSI) :
              (/\ Required[PSI] \subseteq DOMAIN r
               /\ Unmatched(PSI, r) = {}
               /\ AssignedKey(PSI, r, rows[PSI]) \notin Keys(PSI, rows[PSI]))
              => Accepted(PSI, r)

\* C10's case: two stored rows with the same pair, both references stored.
C10_Witness ==
    \E x, y \in BagToSet(rows[PSI]) :
        /\ x["id"] # y["id"]
        /\ x["Pipe_ID"] = y["Pipe_ID"]
        /\ x["Seismic_activity_ID"] = y["Seismic_activity_ID"]
        /\ Dangling(PSI, x, rows) = {}

\* C11: a Failure whose Pipe_ID names a stored Pipe and whose Intervention_ID
\* is null is accepted and stored with Intervention_ID null; a Failure with a
\* non-null Intervention_ID is accepted only if an InterventionHistory row
\* with that Intervention_ID is stored.
C11_OptionalIntervention ==
    (tables = Entities /\ "Failure" \in job) =>
        \A r \in Candidates(job, "Failure") :
            /\ (/\ ~IsNull(r, "Pipe_ID")
                /\ r["Pipe_ID"] \in Keys("Pipe", rows["Pipe"])
                /\ IsNull(r, "Intervention_ID")
                /\ ~PrimaryKeyTaken("Failure", r, rows["Failure"]))
               => /\ Accepted("Failure", r)
                  /\ IsNull(Stored("Failure", r, rows["Failure"]), "Intervention_ID")
            /\ (/\ ~IsNull(r, "Intervention_ID")
                /\ InsertOutcome("Failure", r) = Ok)
               => r["Intervention_ID"] \in
                      Keys("InterventionHistory", rows["InterventionHistory"])

\* C12: no step changes the identifier of a stored row: in every step each
\* table only gains rows or only loses rows, so every row that is stored
\* before and after the step has the identifier it was stored with.
C12_IdentifiersImmutable ==
    [][\A t \in Entities : rows[t] \sqsubseteq rows'[t] \/ rows'[t] \sqsubseteq rows[t]]_vars

Swapped(o) ==
    [o EXCEPT !["Circumferential_start"] = o["Circumferential_end"],
              !["Circumferential_end"] = o["Circumferential_start"]]

\* The Defect objects that end before they start.
Wrapping ==
    {x \in ObjectsOver("Defect", ColumnSet["Defect"] \cup Attributes["Defect"]) :
        /\ Attributes["Defect"] \subseteq DOMAIN x
        /\ x["Circumferential_end"] < x["Circumferential_start"]}

\* C14: wherever a Defect can be added, a Defect whose Circumferential_end
\* is less than its Circumferential_start, both clock positions, fares as
\* the Defect with the two exchanged does, and is stored as given when its
\* Inspection is stored, its code is given and its key is free.
C14_WrappingDefectAccepted ==
    (/\ tables = Entities
     /\ Written(job) = "Defect"
     /\ \A s \in Sessions : session[s].state # "stored") =>
        \A o \in Wrapping :
            LET w == WriteObject("Defect", o, rows)
                r == BindRow("Defect", o)
            IN  /\ w.result = WriteObject("Defect", Swapped(o), rows).result
                /\ (/\ NotNullFailures("Defect", r) = {}
                    /\ ~PrimaryKeyTaken("Defect", r, rows["Defect"])
                    /\ Unmatched("Defect", r) = {})
                   => /\ w.result = Ok
                      /\ BagIn(BindRow("Defect", Persistent("Defect", o, rows)),
                               w.rows["Defect"])

\* C14's case: a Defect that ends before it starts is stored and has been
\* got.
C14_Witness ==
    \E s \in Sessions :
        /\ session[s].state = "read"
        /\ session[s].table = "Defect"
        /\ \E o \in session[s].seen :
              /\ Attributes["Defect"] \subseteq DOMAIN o
              /\ o["Circumferential_end"] < o["Circumferential_start"]
              /\ BagIn(BindRow("Defect", o), rows["Defect"])

\* C15: a Pipe whose Manhole_up_ID and Manhole_down_ID name the same stored
\* Manhole is not refused for that: with its key free it is accepted, and it
\* is stored with both references to that Manhole.
C15_SameManholeBothEnds ==
    (tables = Entities /\ job = {"Pipe", "Manhole"}) =>
        \A r \in {x \in Candidates(job, "Pipe") :
                    {"Manhole_up_ID", "Manhole_down_ID"} \subseteq DOMAIN x} :
            (/\ r["Manhole_up_ID"] = r["Manhole_down_ID"]
             /\ r["Manhole_up_ID"] \in Keys("Manhole", rows["Manhole"])
             /\ ~PrimaryKeyTaken("Pipe", r, rows["Pipe"]))
            => /\ Accepted("Pipe", r)
               /\ Stored("Pipe", r, rows["Pipe"])["Manhole_up_ID"] = r["Manhole_up_ID"]
               /\ Stored("Pipe", r, rows["Pipe"])["Manhole_down_ID"] = r["Manhole_up_ID"]

\* C15's case: a stored Pipe that starts and ends at one stored Manhole.
C15_Witness ==
    \E x \in BagToSet(rows["Pipe"]) :
        /\ {"Manhole_up_ID", "Manhole_down_ID"} \subseteq DOMAIN x
        /\ x["Manhole_up_ID"] = x["Manhole_down_ID"]
        /\ x["Manhole_up_ID"] \in Keys("Manhole", rows["Manhole"])

\* C16: every relationship declared with back_populates has, on its target
\* class, a relationship of that name that points back to it and names it in
\* turn, and a foreign key is declared between the two classes; so has
\* SeismicActivity.pipes, with Pipe.seismic_activity and a foreign key from
\* Pipe to SeismicActivity: whichever relationship a session sets up, it
\* finds the reciprocal and a foreign key, and the configuration succeeds.
C16_RelationshipsConsistent ==
    \A s \in Sessions :
        session[s].op = "configure" =>
            /\ \E q \in session[s].seen :
                  q[3] = session[s].row[1] /\ q[4] = session[s].row[2]
            /\ JoinKeys(session[s].row) # {}
            /\ session[s].state = "configured"

====
